---------------------------- MODULE Spec2Model ----------------------------
(***************************************************************************)
(* Dawami attendance and leave core: the AttendanceLog table with the      *)
(* clock-in / clock-out services of attendance_service.py, and the         *)
(* LeaveTypes / LeaveBalances / LeaveRequests tables with the balance and  *)
(* request services of leave_service.py.  Each service call is one atomic  *)
(* step (one caller at a time, the sqlite store answering every            *)
(* statement), except in SpecLedgerInterleaved, where update_leave_balance *)
(* runs statement by statement for two callers.                            *)
(***************************************************************************)
EXTENDS Integers, Naturals, Sequences, FiniteSets, TLC

VARIABLES
    AttendanceLog,   \* table AttendanceLog: row id = position (AUTOINCREMENT, no delete)
    LeaveTypes,      \* table LeaveTypes: row id = position
    LeaveBalances,   \* table LeaveBalances: row id = position
    last,            \* the last service call: its name, arguments and return value
    clockIns,        \* per employee: number of clock_in calls that returned an id
    clockOuts,       \* per employee: number of clock_out calls that returned True
    LeaveRequests,   \* table LeaveRequests: row id = position
    calls            \* per caller: where its call in progress stands

vars == <<AttendanceLog, LeaveTypes, LeaveBalances, last, clockIns, clockOuts,
          LeaveRequests, calls>>

attVars == <<AttendanceLog, clockIns, clockOuts>>
leaveVars == <<LeaveTypes, LeaveBalances>>
reqVars == <<LeaveRequests>>
callVars == <<calls>>

-----------------------------------------------------------------------------
(* Python None / SQL NULL, and a present value *)
None == <<>>
Some(v) == <<v>>
Val(o) == o[1]

(* Python truthiness of an optional string: None and "" are falsy *)
Truthy(s) == s # None /\ Val(s) # ""

-----------------------------------------------------------------------------
(* Bounds *)
MaxRecords == 2

(* Inputs *)
Employees == {1, 2}
Days == {1}
Seconds == {0, 1}
Micros == {0, 5}
DateTimes == [day : Days, sec : Seconds, usec : Micros]
InNotes == {None, Some("in")}
OutNotes == {None, Some(""), Some("out")}
Sources == {"manual"}

-----------------------------------------------------------------------------
(* datetime values and their stored text *)

\* datetime < datetime
DtLess(a, b) ==
    \/ a.day < b.day
    \/ a.day = b.day /\ a.sec < b.sec
    \/ a.day = b.day /\ a.sec = b.sec /\ a.usec < b.usec

\* dt.strftime(DATETIME_FORMAT): "%Y-%m-%d %H:%M:%S" drops the microseconds
FormatDateTime(dt) == <<dt.day, dt.sec>>

\* dt.strftime(DATE_FORMAT): "%Y-%m-%d"
FormatDate(dt) == dt.day

\* datetime.strptime(text, DATETIME_FORMAT)
ParseDateTime(s) == [day |-> s[1], sec |-> s[2], usec |-> 0]

\* text comparison of two stored "YYYY-MM-DD HH:MM:SS" values
TextLess(s, t) == s[1] < t[1] \/ (s[1] = t[1] /\ s[2] < t[2])

-----------------------------------------------------------------------------
(* attendance_service.py *)

LogIds == 1..Len(AttendanceLog)

\* (mutation) the query without "AND clock_out_time IS NULL"
OpenIds_noNullFilter(e) ==
    {i \in LogIds : AttendanceLog[i].employee_id = e}

\* (mutation) the query without "employee_id = ?"
OpenIds_anyEmployee(e) ==
    {i \in LogIds : AttendanceLog[i].clock_out_time = None}

\* WHERE employee_id = ? AND clock_out_time IS NULL
OpenIds(e) ==
    {i \in LogIds : AttendanceLog[i].employee_id = e
                    /\ AttendanceLog[i].clock_out_time = None}

\* (mutation) the query without its ORDER BY: any open row of the employee
OpenLatest_anyOpen(e) == OpenIds(e)

\* (mutation) ORDER BY clock_in_time ASC
OpenLatest_earliest(e) ==
    {i \in OpenIds(e) :
        \A j \in OpenIds(e) :
            ~TextLess(AttendanceLog[j].clock_in_time, AttendanceLog[i].clock_in_time)}

\* ORDER BY clock_in_time DESC LIMIT 1: a row no other matching row precedes;
\* among rows with equal clock_in_time the store may return any
OpenLatest(e) ==
    {i \in OpenIds(e) :
        \A j \in OpenIds(e) :
            ~TextLess(AttendanceLog[i].clock_in_time, AttendanceLog[j].clock_in_time)}

\* dict(open_log): the row with its id
RowDict(i) == [id |-> i, row |-> AttendanceLog[i]]

\* INSERT INTO AttendanceLog (employee_id, clock_in_time, attendance_date, notes, source)
NewLogRow(e, dt, notes, source) ==
    [employee_id |-> e,
     clock_in_time |-> FormatDateTime(dt),
     clock_out_time |-> None,
     attendance_date |-> FormatDate(dt),
     notes |-> notes,
     source |-> source]

\* (mutation) a clock-in that refuses an employee with an open record
clock_in_rejectsOpen(e, dt, notes, source) ==
    IF OpenIds(e) # {}
    THEN /\ last' = [op |-> "clock_in", employee_id |-> e, at |-> Some(dt),
                     result |-> None]
         /\ UNCHANGED <<attVars, leaveVars, reqVars, callVars>>
    ELSE /\ Len(AttendanceLog) < MaxRecords
         /\ AttendanceLog' = Append(AttendanceLog, NewLogRow(e, dt, notes, source))
         /\ last' = [op |-> "clock_in", employee_id |-> e, at |-> Some(dt),
                     result |-> Some(Len(AttendanceLog) + 1)]
         /\ clockIns' = [clockIns EXCEPT ![e] = @ + 1]
         /\ UNCHANGED <<clockOuts, leaveVars, reqVars, callVars>>

clock_in(e, dt, notes, source) ==
    /\ Len(AttendanceLog) < MaxRecords
    /\ AttendanceLog' = Append(AttendanceLog, NewLogRow(e, dt, notes, source))
    /\ last' = [op |-> "clock_in", employee_id |-> e, at |-> Some(dt),
                result |-> Some(Len(AttendanceLog) + 1)]
    /\ clockIns' = [clockIns EXCEPT ![e] = @ + 1]
    /\ UNCHANGED <<clockOuts, leaveVars, reqVars, callVars>>

get_open_attendance(e) ==
    /\ \/ /\ OpenIds(e) = {}
          /\ last' = [op |-> "get_open_attendance", employee_id |-> e, at |-> None,
                      result |-> None]
       \/ \E i \in OpenLatest(e) :
            last' = [op |-> "get_open_attendance", employee_id |-> e, at |-> None,
                     result |-> Some(RowDict(i))]
    /\ UNCHANGED <<attVars, leaveVars, reqVars, callVars>>

\* (mutation) the comparison written <=
ClockOutBeforeClockIn_orEqual(out_dt, clock_in_time) ==
    \/ DtLess(out_dt, ParseDateTime(clock_in_time))
    \/ out_dt = ParseDateTime(clock_in_time)

\* (mutation) the comparison left out
ClockOutBeforeClockIn_never(out_dt, clock_in_time) == FALSE

\* if clock_out_time_dt < clock_in_dt: return False
ClockOutBeforeClockIn(out_dt, clock_in_time) ==
    DtLess(out_dt, ParseDateTime(clock_in_time))

\* the notes written by clock_out
MergeNotes(existing, notes) ==
    IF Truthy(notes)
    THEN IF Truthy(existing)
         THEN Some(Val(existing) \o "\nClock-out: " \o Val(notes))
         ELSE Some("Clock-out: " \o Val(notes))
    ELSE existing

\* (mutation) UPDATE ... SET notes = ? WHERE id = ?
UpdateLogRow_notesOnly(i, clock_out_time, notes) ==
    [AttendanceLog EXCEPT ![i].notes = notes]

\* (mutation) UPDATE ... WHERE employee_id = ?
UpdateLogRow_allOfEmployee(i, clock_out_time, notes) ==
    [j \in 1..Len(AttendanceLog) |->
        IF AttendanceLog[j].employee_id = AttendanceLog[i].employee_id
        THEN [AttendanceLog[j] EXCEPT !.clock_out_time = Some(clock_out_time),
                                      !.notes = notes]
        ELSE AttendanceLog[j]]

\* UPDATE AttendanceLog SET clock_out_time = ?, notes = ? WHERE id = ?
UpdateLogRow(i, clock_out_time, notes) ==
    [AttendanceLog EXCEPT ![i].clock_out_time = Some(clock_out_time),
                          ![i].notes = notes]

clock_out(e, dt, notes) ==
    \/ /\ OpenIds(e) = {}
       /\ last' = [op |-> "clock_out", employee_id |-> e, at |-> Some(dt),
                   result |-> Some(FALSE)]
       /\ UNCHANGED <<attVars, leaveVars, reqVars, callVars>>
    \/ \E i \in OpenLatest(e) :
         IF ClockOutBeforeClockIn(dt, AttendanceLog[i].clock_in_time)
         THEN /\ last' = [op |-> "clock_out", employee_id |-> e, at |-> Some(dt),
                          result |-> Some(FALSE)]
              /\ UNCHANGED <<attVars, leaveVars, reqVars, callVars>>
         ELSE /\ AttendanceLog' =
                    UpdateLogRow(i, FormatDateTime(dt),
                                 MergeNotes(AttendanceLog[i].notes, notes))
              /\ last' = [op |-> "clock_out", employee_id |-> e, at |-> Some(dt),
                          result |-> Some(TRUE)]
              /\ clockOuts' = [clockOuts EXCEPT ![e] = @ + 1]
              /\ UNCHANGED <<clockIns, leaveVars, reqVars, callVars>>

-----------------------------------------------------------------------------
(* clock_out in its two database steps: get_open_attendance runs on a
   connection of its own, the UPDATE on another, with nothing held in between,
   so another caller's steps can fall between the two. *)

\* open_log = get_open_attendance(employee_id), and the checks made on it
clock_out_lookup(p, e, dt, notes) ==
    /\ calls[p].pc = "idle"
    /\ \/ /\ OpenIds(e) = {}
          /\ last' = [op |-> "clock_out", employee_id |-> e, at |-> Some(dt),
                      result |-> Some(FALSE)]
          /\ UNCHANGED calls
       \/ \E i \in OpenLatest(e) :
            IF ClockOutBeforeClockIn(dt, AttendanceLog[i].clock_in_time)
            THEN /\ last' = [op |-> "clock_out", employee_id |-> e, at |-> Some(dt),
                             result |-> Some(FALSE)]
                 /\ UNCHANGED calls
            ELSE /\ calls' = [calls EXCEPT ![p] =
                                 [pc |-> "clock_out_update", employee_id |-> e,
                                  at |-> dt, notes |-> notes,
                                  open_log |-> RowDict(i)]]
                 /\ UNCHANGED last
    /\ UNCHANGED <<attVars, leaveVars, reqVars>>

\* UPDATE AttendanceLog ... WHERE id = open_log['id']; commit; rowcount > 0
clock_out_update(p) ==
    /\ calls[p].pc = "clock_out_update"
    /\ AttendanceLog' =
          UpdateLogRow(calls[p].open_log.id, FormatDateTime(calls[p].at),
                       MergeNotes(calls[p].open_log.row.notes, calls[p].notes))
    /\ last' = [op |-> "clock_out", employee_id |-> calls[p].employee_id,
                at |-> Some(calls[p].at), result |-> Some(TRUE)]
    /\ clockOuts' = [clockOuts EXCEPT ![calls[p].employee_id] = @ + 1]
    /\ calls' = [calls EXCEPT ![p] = [pc |-> "idle"]]
    /\ UNCHANGED <<clockIns, leaveVars, reqVars>>

-----------------------------------------------------------------------------
(* Python float / SQLite REAL: binary floating point, round to nearest, ties
   to even.  A value is an integer count of the smallest step; a float keeps
   MantDig significant bits of it (sys.float_info.mant_dig, scaled down). *)
MantDig == 3
MaxBalance == 10
MaxOverdraft == 2

RECURSIVE Exp2(_)
Exp2(k) == IF k = 0 THEN 1 ELSE 2 * Exp2(k - 1)

\* nearest magnitude with MantDig significant bits, ties to the even significand
RoundMag(a) ==
    IF a < Exp2(MantDig) THEN a
    ELSE LET k == CHOOSE k \in 1..a :
                      Exp2(MantDig + k - 1) <= a /\ a < Exp2(MantDig + k)
             q == a \div Exp2(k)
             r == a % Exp2(k)
             half == Exp2(k - 1)
         IN  IF r < half THEN q * Exp2(k)
             ELSE IF r > half THEN (q + 1) * Exp2(k)
             ELSE IF q % 2 = 0 THEN q * Exp2(k)
             ELSE (q + 1) * Exp2(k)

\* float(x)
ToFloat(n) == IF n < 0 THEN 0 - RoundMag(0 - n) ELSE RoundMag(n)

\* a + b on floats
FAdd(a, b) == ToFloat(a + b)

Floats == {n \in (0 - MaxOverdraft)..MaxBalance : ToFloat(n) = n}

(* Inputs *)
TypeNames == {"Annual", "Unpaid"}
Defaults == {None, Some(1)}
TypeIds == {1, 2}
Years == {2024}
LedgerEmployees == {1}
Amounts == {-1, 1, 2, 8}
Callers == {1, 2}

-----------------------------------------------------------------------------
(* leave_service.py *)

\* INSERT INTO LeaveTypes (type_name, default_balance); type_name is UNIQUE
add_leave_type(type_name, default_balance) ==
    /\ IF \E i \in 1..Len(LeaveTypes) : LeaveTypes[i].type_name = type_name
       THEN /\ last' = [op |-> "add_leave_type", type_name |-> type_name,
                        result |-> None]
            /\ UNCHANGED LeaveTypes
       ELSE /\ LeaveTypes' = Append(LeaveTypes,
                                    [type_name |-> type_name,
                                     default_balance |-> default_balance])
            /\ last' = [op |-> "add_leave_type", type_name |-> type_name,
                        result |-> Some(Len(LeaveTypes) + 1)]
    /\ UNCHANGED <<LeaveBalances, attVars, reqVars, callVars>>

\* SELECT ... FROM LeaveBalances WHERE employee_id = ? AND leave_type_id = ? AND year = ?
BalanceRows(tbl, e, lt, y) ==
    {i \in 1..Len(tbl) : tbl[i].employee_id = e /\ tbl[i].leave_type_id = lt
                         /\ tbl[i].year = y}

\* SELECT default_balance FROM LeaveTypes WHERE id = ?; the row and a non-NULL
\* default, else nothing
TypeDefault(types, lt) ==
    IF lt \in 1..Len(types) THEN types[lt].default_balance ELSE None

\* (mutation) the leave type's default looked up before the employee's row
BalanceOf_defaultFirst(tbl, types, e, lt, y) ==
    IF TypeDefault(types, lt) # None
    THEN Val(TypeDefault(types, lt))
    ELSE IF BalanceRows(tbl, e, lt, y) # {}
         THEN tbl[CHOOSE i \in BalanceRows(tbl, e, lt, y) : TRUE].balance
         ELSE 0

\* the value get_leave_balance returns
BalanceOf(tbl, types, e, lt, y) ==
    IF BalanceRows(tbl, e, lt, y) # {}
    THEN tbl[CHOOSE i \in BalanceRows(tbl, e, lt, y) : TRUE].balance
    ELSE IF TypeDefault(types, lt) # None
         THEN Val(TypeDefault(types, lt))
         ELSE 0

\* (mutation) the default written as the key's row when it is reported
get_leave_balance_createsRow(e, lt, y) ==
    /\ last' = [op |-> "get_leave_balance", employee_id |-> e, leave_type_id |-> lt,
                year |-> y, result |-> BalanceOf(LeaveBalances, LeaveTypes, e, lt, y)]
    /\ LeaveBalances' =
          IF BalanceRows(LeaveBalances, e, lt, y) = {} /\ TypeDefault(LeaveTypes, lt) # None
          THEN Append(LeaveBalances,
                      [employee_id |-> e, leave_type_id |-> lt, year |-> y,
                       balance |-> Val(TypeDefault(LeaveTypes, lt))])
          ELSE LeaveBalances
    /\ UNCHANGED <<LeaveTypes, attVars, reqVars, callVars>>

get_leave_balance(e, lt, y) ==
    /\ last' = [op |-> "get_leave_balance", employee_id |-> e, leave_type_id |-> lt,
                year |-> y, result |-> BalanceOf(LeaveBalances, LeaveTypes, e, lt, y)]
    /\ UNCHANGED <<LeaveTypes, LeaveBalances, attVars, reqVars, callVars>>

\* (mutation) is_initial_balance honoured only when the row is created
NewBalance_initialAddsToRow(tbl, types, e, lt, y, change_amount, is_initial_balance) ==
    IF BalanceRows(tbl, e, lt, y) # {}
    THEN FAdd(ToFloat(tbl[CHOOSE i \in BalanceRows(tbl, e, lt, y) : TRUE].balance),
              ToFloat(change_amount))
    ELSE IF is_initial_balance
         THEN ToFloat(change_amount)
         ELSE FAdd(IF TypeDefault(types, lt) # None
                   THEN ToFloat(Val(TypeDefault(types, lt)))
                   ELSE 0,
                   ToFloat(change_amount))

\* (mutation) the leave type's default added on every non-initial call
NewBalance_defaultEveryTime(tbl, types, e, lt, y, change_amount, is_initial_balance) ==
    IF is_initial_balance
    THEN ToFloat(change_amount)
    ELSE FAdd(FAdd(IF BalanceRows(tbl, e, lt, y) # {}
                   THEN ToFloat(tbl[CHOOSE i \in BalanceRows(tbl, e, lt, y) : TRUE].balance)
                   ELSE 0,
                   IF TypeDefault(types, lt) # None
                   THEN ToFloat(Val(TypeDefault(types, lt)))
                   ELSE 0),
              ToFloat(change_amount))

\* new_balance of update_leave_balance
NewBalance(tbl, types, e, lt, y, change_amount, is_initial_balance) ==
    IF BalanceRows(tbl, e, lt, y) # {}
    THEN IF is_initial_balance
         THEN ToFloat(change_amount)
         ELSE FAdd(ToFloat(tbl[CHOOSE i \in BalanceRows(tbl, e, lt, y) : TRUE].balance),
                   ToFloat(change_amount))
    ELSE IF is_initial_balance
         THEN ToFloat(change_amount)
         ELSE FAdd(IF TypeDefault(types, lt) # None
                   THEN ToFloat(Val(TypeDefault(types, lt)))
                   ELSE 0,
                   ToFloat(change_amount))

\* UPDATE LeaveBalances SET balance = ? WHERE id = ?, or INSERT INTO LeaveBalances
WriteBalance(tbl, e, lt, y, new_balance) ==
    IF BalanceRows(tbl, e, lt, y) # {}
    THEN [tbl EXCEPT ![CHOOSE i \in BalanceRows(tbl, e, lt, y) : TRUE].balance =
                        new_balance]
    ELSE Append(tbl, [employee_id |-> e, leave_type_id |-> lt, year |-> y,
                      balance |-> new_balance])

\* the LeaveBalances table after update_leave_balance
UpdatedBalances(tbl, types, e, lt, y, change_amount, is_initial_balance) ==
    WriteBalance(tbl, e, lt, y,
                 NewBalance(tbl, types, e, lt, y, change_amount, is_initial_balance))

update_leave_balance(e, lt, y, change_amount, is_initial_balance) ==
    /\ NewBalance(LeaveBalances, LeaveTypes, e, lt, y, change_amount,
                  is_initial_balance) \in Floats
    /\ LeaveBalances' = UpdatedBalances(LeaveBalances, LeaveTypes, e, lt, y,
                                        change_amount, is_initial_balance)
    /\ last' = [op |-> "update_leave_balance", employee_id |-> e,
                leave_type_id |-> lt, year |-> y, change_amount |-> change_amount,
                is_initial_balance |-> is_initial_balance,
                existing_balance_row |->
                    IF BalanceRows(LeaveBalances, e, lt, y) = {} THEN None
                    ELSE Some(LeaveBalances[CHOOSE i \in
                                  BalanceRows(LeaveBalances, e, lt, y) : TRUE].balance),
                result |-> NewBalance(LeaveBalances, LeaveTypes, e, lt, y,
                                      change_amount, is_initial_balance)]
    /\ UNCHANGED <<LeaveTypes, attVars, reqVars, callVars>>

-----------------------------------------------------------------------------
(* update_leave_balance statement by statement.  The SELECTs run outside a
   transaction (sqlite3 opens one only before INSERT / UPDATE), so another
   caller's statements can fall between them and the write; the write and its
   commit are one step. *)

\* (mutation) the key of LeaveBalances not declared UNIQUE
UniqueViolation_notEnforced(tbl, e, lt, y) == FALSE

\* UNIQUE (employee_id, leave_type_id, year): the INSERT raises IntegrityError
UniqueViolation(tbl, e, lt, y) == BalanceRows(tbl, e, lt, y) # {}

\* cursor.execute(SELECT id, balance ...); fetchone(); new_balance where it
\* needs no further read
update_select(p, e, lt, y, change_amount, is_initial_balance) ==
    /\ calls[p].pc = "idle"
    /\ LET rows == BalanceRows(LeaveBalances, e, lt, y)
           args == [employee_id |-> e, leave_type_id |-> lt, year |-> y,
                    change_amount |-> change_amount,
                    is_initial_balance |-> is_initial_balance]
       IN  IF rows # {}
           THEN LET id == CHOOSE i \in rows : TRUE
                    new_balance ==
                        IF is_initial_balance THEN ToFloat(change_amount)
                        ELSE FAdd(ToFloat(LeaveBalances[id].balance),
                                  ToFloat(change_amount))
                IN  /\ new_balance \in Floats
                    /\ calls' = [calls EXCEPT ![p] =
                                    [pc |-> "update", args |-> args, id |-> id,
                                     new_balance |-> new_balance]]
           ELSE IF is_initial_balance
                THEN /\ ToFloat(change_amount) \in Floats
                     /\ calls' = [calls EXCEPT ![p] =
                                    [pc |-> "insert", args |-> args,
                                     new_balance |-> ToFloat(change_amount)]]
                ELSE calls' = [calls EXCEPT ![p] =
                                    [pc |-> "default", args |-> args]]
    /\ UNCHANGED <<last, leaveVars, attVars, reqVars>>

\* cursor.execute(SELECT default_balance FROM LeaveTypes ...); base_balance
update_read_default(p) ==
    /\ calls[p].pc = "default"
    /\ LET lt == calls[p].args.leave_type_id
           base_balance == IF TypeDefault(LeaveTypes, lt) # None
                           THEN ToFloat(Val(TypeDefault(LeaveTypes, lt)))
                           ELSE 0
           new_balance == FAdd(base_balance, ToFloat(calls[p].args.change_amount))
       IN  /\ new_balance \in Floats
           /\ calls' = [calls EXCEPT ![p] =
                           [pc |-> "insert", args |-> calls[p].args,
                            new_balance |-> new_balance]]
    /\ UNCHANGED <<last, leaveVars, attVars, reqVars>>

\* what the call returns, as the last service call
UpdateReturn(p, path, result) ==
    [op |-> "update_leave_balance", caller |-> p,
     employee_id |-> calls[p].args.employee_id,
     leave_type_id |-> calls[p].args.leave_type_id, year |-> calls[p].args.year,
     change_amount |-> calls[p].args.change_amount,
     is_initial_balance |-> calls[p].args.is_initial_balance,
     path |-> path, result |-> result]

\* UPDATE LeaveBalances SET balance = ? WHERE id = ?; commit; return new_balance
update_write_update(p) ==
    /\ calls[p].pc = "update"
    /\ LeaveBalances' = [LeaveBalances EXCEPT ![calls[p].id].balance =
                                                  calls[p].new_balance]
    /\ last' = UpdateReturn(p, "update", calls[p].new_balance)
    /\ calls' = [calls EXCEPT ![p] = [pc |-> "idle"]]
    /\ UNCHANGED <<LeaveTypes, attVars, reqVars>>

\* INSERT INTO LeaveBalances ...; commit; return new_balance -- or IntegrityError
update_write_insert(p) ==
    /\ calls[p].pc = "insert"
    /\ LET a == calls[p].args
       IN  IF UniqueViolation(LeaveBalances, a.employee_id, a.leave_type_id, a.year)
           THEN /\ calls' = [calls EXCEPT ![p] = [pc |-> "except", args |-> a]]
                /\ UNCHANGED <<last, LeaveBalances>>
           ELSE /\ LeaveBalances' =
                      Append(LeaveBalances,
                             [employee_id |-> a.employee_id,
                              leave_type_id |-> a.leave_type_id, year |-> a.year,
                              balance |-> calls[p].new_balance])
                /\ last' = UpdateReturn(p, "insert", calls[p].new_balance)
                /\ calls' = [calls EXCEPT ![p] = [pc |-> "idle"]]
    /\ UNCHANGED <<LeaveTypes, attVars, reqVars>>

\* the UPDATE or INSERT raising sqlite3.OperationalError (database is locked,
\* disk I/O error): nothing is written, the connection is closed uncommitted
update_write_fails(p) ==
    /\ calls[p].pc \in {"update", "insert"}
    /\ calls' = [calls EXCEPT ![p] = [pc |-> "except", args |-> calls[p].args]]
    /\ UNCHANGED <<last, leaveVars, attVars, reqVars>>

\* except sqlite3.Error: return get_leave_balance(employee_id, leave_type_id, year)
update_except(p) ==
    /\ calls[p].pc = "except"
    /\ LET a == calls[p].args
       IN  last' = UpdateReturn(p, "except",
                                BalanceOf(LeaveBalances, LeaveTypes, a.employee_id,
                                          a.leave_type_id, a.year))
    /\ calls' = [calls EXCEPT ![p] = [pc |-> "idle"]]
    /\ UNCHANGED <<leaveVars, attVars, reqVars>>


-----------------------------------------------------------------------------
(* Leave requests.  A date text is the sequence of its characters;
   datetime.strptime(text, "%Y-%m-%d") accepts it or raises ValueError. *)
MaxRequests == 2

(* Inputs *)
StartDateTexts == {<<"2", "0", "2", "4", "-", "0", "7", "-", "1", "5">>,
                   <<"2", "0", "2", "4", "-", "0", "2", "-", "3", "0">>}
EndDateTexts == {<<"2", "0", "2", "4", "-", "0", "7", "-", "1", "5">>,
                 <<"2", "0", "2", "4", "-", "7", "-", "5">>,
                 <<"2", "0", "2", "4", "-", "0", "2", "-", "3", "0">>}
RequestEmployees == {1}
RequestTypes == {1}
Reasons == {"Vacation"}
Nows == {[day |-> 1, sec |-> 0, usec |-> 5]}
RequestIds == {1, 2, 3, 4}
Approvers == {1, 2}

DigitChars == <<"0", "1", "2", "3", "4", "5", "6", "7", "8", "9">>
IsDigit(c) == \E n \in 1..Len(DigitChars) : DigitChars[n] = c
DigitValue(c) == (CHOOSE n \in 1..Len(DigitChars) : DigitChars[n] = c) - 1

\* int(field): leading blanks skipped, then the decimal digits
RECURSIVE IntOf(_)
IntOf(t) ==
    IF t = <<>> THEN 0
    ELSE IF ~IsDigit(t[Len(t)]) THEN 0
    ELSE 10 * IntOf(SubSeq(t, 1, Len(t) - 1)) + DigitValue(t[Len(t)])

\* the directive patterns of _strptime: %Y \d\d\d\d, %m 1[0-2]|0[1-9]|[1-9],
\* %d 3[0-1]|[1-2]\d|0[1-9]|[1-9]| [1-9]
MatchesYear(t) == Len(t) = 4 /\ \A i \in 1..4 : IsDigit(t[i])
MatchesMonth(t) ==
    \/ Len(t) = 2 /\ t[1] = "1" /\ t[2] \in {"0", "1", "2"}
    \/ Len(t) = 2 /\ t[1] = "0" /\ IsDigit(t[2]) /\ t[2] # "0"
    \/ Len(t) = 1 /\ IsDigit(t[1]) /\ t[1] # "0"
MatchesDay(t) ==
    \/ Len(t) = 2 /\ t[1] = "3" /\ t[2] \in {"0", "1"}
    \/ Len(t) = 2 /\ t[1] \in {"1", "2"} /\ IsDigit(t[2])
    \/ Len(t) = 2 /\ t[1] \in {"0", " "} /\ IsDigit(t[2]) /\ t[2] # "0"
    \/ Len(t) = 1 /\ IsDigit(t[1]) /\ t[1] # "0"

IsLeap(y) == y % 4 = 0 /\ (y % 100 # 0 \/ y % 400 = 0)
DaysInMonth(y, m) ==
    IF m \in {4, 6, 9, 11} THEN 30
    ELSE IF m = 2 THEN (IF IsLeap(y) THEN 29 ELSE 28)
    ELSE 31

\* (mutation) the fields matched but the date not built from them
ParseDate_patternOnly(text) ==
    LET dashes == {i \in 1..Len(text) : text[i] = "-"}
    IN  IF Cardinality(dashes) # 2 THEN None
        ELSE LET d1 == CHOOSE i \in dashes : \A j \in dashes : i <= j
                 d2 == CHOOSE i \in dashes : \A j \in dashes : i >= j
                 Y == SubSeq(text, 1, d1 - 1)
                 M == SubSeq(text, d1 + 1, d2 - 1)
                 D == SubSeq(text, d2 + 1, Len(text))
             IN  IF MatchesYear(Y) /\ MatchesMonth(M) /\ MatchesDay(D)
                 THEN Some([year |-> IntOf(Y), month |-> IntOf(M), day |-> IntOf(D)])
                 ELSE None

\* datetime.strptime(text, DATE_FORMAT): the date, or None for ValueError
ParseDate(text) ==
    LET dashes == {i \in 1..Len(text) : text[i] = "-"}
    IN  IF Cardinality(dashes) # 2 THEN None
        ELSE LET d1 == CHOOSE i \in dashes : \A j \in dashes : i <= j
                 d2 == CHOOSE i \in dashes : \A j \in dashes : i >= j
                 Y == SubSeq(text, 1, d1 - 1)
                 M == SubSeq(text, d1 + 1, d2 - 1)
                 D == SubSeq(text, d2 + 1, Len(text))
             IN  IF /\ MatchesYear(Y) /\ MatchesMonth(M) /\ MatchesDay(D)
                    /\ IntOf(Y) >= 1
                    /\ IntOf(D) <= DaysInMonth(IntOf(Y), IntOf(M))
                 THEN Some([year |-> IntOf(Y), month |-> IntOf(M), day |-> IntOf(D)])
                 ELSE None

\* INSERT INTO LeaveRequests (...): approver_id is left NULL
NewRequestRow(e, lt, start_date_str, end_date_str, reason, status, request_date_str) ==
    [employee_id |-> e, leave_type_id |-> lt, start_date |-> start_date_str,
     end_date |-> end_date_str, reason |-> reason, status |-> status,
     approver_id |-> None, request_date |-> request_date_str]

apply_for_leave(e, lt, start_date_str, end_date_str, reason, now) ==
    /\ IF ParseDate(start_date_str) = None \/ ParseDate(end_date_str) = None
       THEN /\ last' = [op |-> "apply_for_leave", employee_id |-> e,
                        leave_type_id |-> lt, start_date_str |-> start_date_str,
                        end_date_str |-> end_date_str, result |-> None]
            /\ UNCHANGED LeaveRequests
       ELSE /\ Len(LeaveRequests) < MaxRequests
            /\ LeaveRequests' =
                  Append(LeaveRequests,
                         NewRequestRow(e, lt, start_date_str, end_date_str, reason,
                                       "Pending", FormatDateTime(now)))
            /\ last' = [op |-> "apply_for_leave", employee_id |-> e,
                        leave_type_id |-> lt, start_date_str |-> start_date_str,
                        end_date_str |-> end_date_str,
                        result |-> Some(Len(LeaveRequests) + 1)]
    /\ UNCHANGED <<leaveVars, attVars, callVars>>

\* SELECT id, status FROM LeaveRequests WHERE id = ?; fetchone()
FindRequest(tbl, leave_request_id) ==
    IF leave_request_id \in 1..Len(tbl)
    THEN Some([id |-> leave_request_id, status |-> tbl[leave_request_id].status])
    ELSE None

\* (mutation) the UPDATE setting the status only
StatusUpdated_statusOnly(tbl, leave_request_id, new_status, approver_id) ==
    [i \in 1..Len(tbl) |->
        IF i = leave_request_id THEN [tbl[i] EXCEPT !.status = new_status]
        ELSE tbl[i]]

\* UPDATE LeaveRequests SET status = ?, approver_id = ? WHERE id = ?
StatusUpdated(tbl, leave_request_id, new_status, approver_id) ==
    [i \in 1..Len(tbl) |->
        IF i = leave_request_id
        THEN [tbl[i] EXCEPT !.status = new_status, !.approver_id = Some(approver_id)]
        ELSE tbl[i]]

\* cursor.rowcount of that UPDATE
RowCount(tbl, leave_request_id) ==
    Cardinality({i \in 1..Len(tbl) : i = leave_request_id})

\* (mutation) the check of lines 187-190 in force: only a Pending request changes
_update_leave_request_status_pendingOnly(leave_request_id, new_status, approver_id) ==
    LET request_row == FindRequest(LeaveRequests, leave_request_id)
    IN  /\ IF request_row = None \/ Val(request_row).status # "Pending"
           THEN /\ last' = [op |-> "_update_leave_request_status",
                            leave_request_id |-> leave_request_id,
                            new_status |-> new_status, approver_id |-> approver_id,
                            request_row |-> request_row, result |-> FALSE]
                /\ UNCHANGED LeaveRequests
           ELSE /\ LeaveRequests' = StatusUpdated(LeaveRequests, leave_request_id,
                                                  new_status, approver_id)
                /\ last' = [op |-> "_update_leave_request_status",
                            leave_request_id |-> leave_request_id,
                            new_status |-> new_status, approver_id |-> approver_id,
                            request_row |-> request_row,
                            result |-> RowCount(LeaveRequests, leave_request_id) > 0]
        /\ UNCHANGED <<leaveVars, attVars, callVars>>

\* (mutation) a missing request reported as updated
_update_leave_request_status_missingSucceeds(leave_request_id, new_status, approver_id) ==
    LET request_row == FindRequest(LeaveRequests, leave_request_id)
    IN  /\ LeaveRequests' = StatusUpdated(LeaveRequests, leave_request_id,
                                          new_status, approver_id)
        /\ last' = [op |-> "_update_leave_request_status",
                    leave_request_id |-> leave_request_id,
                    new_status |-> new_status, approver_id |-> approver_id,
                    request_row |-> request_row, result |-> TRUE]
        /\ UNCHANGED <<leaveVars, attVars, callVars>>

_update_leave_request_status(leave_request_id, new_status, approver_id) ==
    LET request_row == FindRequest(LeaveRequests, leave_request_id)
    IN  /\ IF request_row = None
           THEN /\ last' = [op |-> "_update_leave_request_status",
                            leave_request_id |-> leave_request_id,
                            new_status |-> new_status, approver_id |-> approver_id,
                            request_row |-> request_row, result |-> FALSE]
                /\ UNCHANGED LeaveRequests
           ELSE /\ LeaveRequests' = StatusUpdated(LeaveRequests, leave_request_id,
                                                  new_status, approver_id)
                /\ last' = [op |-> "_update_leave_request_status",
                            leave_request_id |-> leave_request_id,
                            new_status |-> new_status, approver_id |-> approver_id,
                            request_row |-> request_row,
                            result |-> RowCount(LeaveRequests, leave_request_id) > 0]
        /\ UNCHANGED <<leaveVars, attVars, callVars>>

\* (mutation) approval also taking one day off the employee's balance
approve_leave_request_deductsBalance(leave_request_id, approver_id) ==
    LET request_row == FindRequest(LeaveRequests, leave_request_id)
    IN  IF request_row = None
        THEN _update_leave_request_status(leave_request_id, "Approved", approver_id)
        ELSE /\ LeaveRequests' = StatusUpdated(LeaveRequests, leave_request_id,
                                               "Approved", approver_id)
             /\ last' = [op |-> "_update_leave_request_status",
                         leave_request_id |-> leave_request_id,
                         new_status |-> "Approved", approver_id |-> approver_id,
                         request_row |-> request_row, result |-> TRUE]
             /\ LeaveBalances' =
                   [i \in 1..Len(LeaveBalances) |->
                       IF LeaveBalances[i].employee_id =
                              LeaveRequests[leave_request_id].employee_id
                       THEN [LeaveBalances[i] EXCEPT !.balance = 0]
                       ELSE LeaveBalances[i]]
             /\ UNCHANGED <<LeaveTypes, attVars, callVars>>

approve_leave_request(leave_request_id, approver_id) ==
    _update_leave_request_status(leave_request_id, "Approved", approver_id)

reject_leave_request(leave_request_id, approver_id) ==
    _update_leave_request_status(leave_request_id, "Rejected", approver_id)

-----------------------------------------------------------------------------
(* reporting_service.py.  A duration or a sentinel is the sequence of its
   characters; sec counts the seconds of the day, so that two datetimes are
   (out.day - in.day) * 86400 + (out.sec - in.sec) seconds apart. *)

(* Inputs *)
DurationTexts == {<<d, t>> : d \in {1, 2, 6}, t \in {0, 59, 32400, 63000, 86399}}
DurationInputs == {None} \cup {Some(t) : t \in DurationTexts}

\* the decimal digits of n
RECURSIVE Digits(_)
Digits(n) ==
    IF n < 10 THEN <<DigitChars[n + 1]>>
    ELSE Digits(n \div 10) \o <<DigitChars[(n % 10) + 1]>>

\* f"{n:02}": zero-padded to two characters, longer when n needs more
Pad2(n) == IF n < 10 THEN <<"0">> \o Digits(n) ELSE Digits(n)

\* int((clock_out_dt - clock_in_dt).total_seconds())
TotalSeconds(in_dt, out_dt) ==
    (out_dt.day - in_dt.day) * 86400 + (out_dt.sec - in_dt.sec)

\* (mutation) the hours taken modulo 24, as a time of day
FormatDuration_wrapsHours(total_seconds) ==
    Pad2((total_seconds \div 3600) % 24) \o <<":">>
        \o Pad2((total_seconds % 3600) \div 60) \o <<":">>
        \o Pad2(total_seconds % 60)

\* hours, minutes, seconds and f"{hours:02}:{minutes:02}:{seconds:02}"
FormatDuration(total_seconds) ==
    Pad2(total_seconds \div 3600) \o <<":">>
        \o Pad2((total_seconds % 3600) \div 60) \o <<":">>
        \o Pad2(total_seconds % 60)

_calculate_duration(clock_in_str, clock_out_str) ==
    IF clock_in_str = None THEN <<"N", "/", "A">>
    ELSE IF clock_out_str = None THEN <<"O", "p", "e", "n">>
    ELSE LET clock_in_dt == ParseDateTime(Val(clock_in_str))
             clock_out_dt == ParseDateTime(Val(clock_out_str))
         IN  IF DtLess(clock_out_dt, clock_in_dt)
             THEN <<"I", "n", "v", "a", "l", "i", "d", " ", "(", "O", "u", "t",
                    " ", "<", " ", "I", "n", ")">>
             ELSE FormatDuration(TotalSeconds(clock_in_dt, clock_out_dt))

\* the function applied to the texts drawn at the start
calculate_duration_call ==
    /\ last.op = "input"
    /\ last' = [op |-> "_calculate_duration", clock_in_str |-> last.clock_in_str,
                clock_out_str |-> last.clock_out_str,
                result |-> _calculate_duration(last.clock_in_str, last.clock_out_str)]
    /\ UNCHANGED <<attVars, leaveVars, reqVars, callVars>>

(* Inputs of the reports *)
ReportDays == {1, 2, 3}
ShiftStarts == {[day |-> d, sec |-> 0, usec |-> 0] : d \in ReportDays}
ShiftEnds == {[day |-> d, sec |-> 3600, usec |-> 0] : d \in ReportDays}
ReportDates == {[day |-> d] : d \in ReportDays}

\* FROM AttendanceLog al JOIN Employees e ON al.employee_id = e.id
\* WHERE al.employee_id = ? AND al.attendance_date >= ? AND al.attendance_date <= ?
SummaryRows(employee_id, start_date_str, end_date_str) ==
    {i \in LogIds : /\ AttendanceLog[i].employee_id \in Employees
                    /\ AttendanceLog[i].employee_id = employee_id
                    /\ AttendanceLog[i].attendance_date >= start_date_str
                    /\ AttendanceLog[i].attendance_date <= end_date_str}

\* (mutation) one day counted for every row
PresentDates_perRow(rows) == rows

\* present_dates.add(row['attendance_date']) over the rows
PresentDates(rows) == {AttendanceLog[i].attendance_date : i \in rows}

\* what one row adds to summary['total_duration_seconds']
RowSeconds(i) ==
    IF AttendanceLog[i].clock_out_time = None THEN 0
    ELSE LET cin == ParseDateTime(AttendanceLog[i].clock_in_time)
             cout == ParseDateTime(Val(AttendanceLog[i].clock_out_time))
         IN  IF DtLess(cin, cout) THEN TotalSeconds(cin, cout) ELSE 0

\* the loop over cursor.fetchall()
RECURSIVE TotalDurationSeconds(_)
TotalDurationSeconds(rows) ==
    IF rows = {} THEN 0
    ELSE LET i == CHOOSE r \in rows : TRUE
         IN  RowSeconds(i) + TotalDurationSeconds(rows \ {i})

get_employee_attendance_summary(employee_id, start_date_obj, end_date_obj) ==
    LET start_date_str == FormatDate(start_date_obj)
        end_date_str == FormatDate(end_date_obj)
        rows == SummaryRows(employee_id, start_date_str, end_date_str)
        tds == TotalDurationSeconds(rows)
    IN  /\ last' = [op |-> "get_employee_attendance_summary",
                    employee_id |-> employee_id,
                    start_date |-> start_date_str,
                    end_date |-> end_date_str,
                    result |-> [total_days_present |-> Cardinality(PresentDates(rows)),
                                total_duration_seconds |-> tds,
                                total_hours_worked_str |-> FormatDuration(tds)]]
        /\ UNCHANGED <<attVars, leaveVars, reqVars, callVars>>

(* Inputs of the leave report: one span written with and without zero padding,
   the days of the windows, the optional filters *)
LeaveSpans == {<<<<"2", "0", "2", "4", "-", "0", "7", "-", "0", "5">>,
                 <<"2", "0", "2", "4", "-", "0", "7", "-", "0", "9">>>>,
               <<<<"2", "0", "2", "4", "-", "7", "-", "5">>,
                 <<"2", "0", "2", "4", "-", "7", "-", "9">>>>}
WindowDay(d) == [year |-> 2024, month |-> 7, day |-> d]
Windows == {<<WindowDay(1), WindowDay(1)>>, <<WindowDay(1), WindowDay(6)>>,
            <<WindowDay(6), WindowDay(6)>>, <<WindowDay(1), WindowDay(20)>>,
            <<WindowDay(20), WindowDay(20)>>}
ReportFilters ==
    {[employee_id |-> None, leave_type_id |-> None, status |-> None],
     [employee_id |-> Some(1), leave_type_id |-> None, status |-> None],
     [employee_id |-> None, leave_type_id |-> Some(2), status |-> None],
     [employee_id |-> None, leave_type_id |-> None, status |-> Some("Approved")]}

\* the Employees table in ORDER BY e.last_name, e.first_name:
\* ("ReportEmp", "One") before ("ReportEmp", "Two")
EmployeesByName == <<1, 2>>
NameRank(e) == CHOOSE n \in 1..Len(EmployeesByName) : EmployeesByName[n] = e

\* date.strftime(DATE_FORMAT): "%Y-%m-%d", month and day zero-padded
FormatDateObj(d) ==
    Digits(d.year) \o <<"-">> \o Pad2(d.month) \o <<"-">> \o Pad2(d.day)

\* the order of the characters of a date text: " " < "-" < "0" < ... < "9"
CharRank(c) == IF c = " " THEN 0 ELSE IF c = "-" THEN 1 ELSE 2 + DigitValue(c)

\* s < t on two TEXT values: the first differing character decides, and a
\* proper prefix comes first
RECURSIVE SqlTextLess(_, _)
SqlTextLess(s, t) ==
    IF t = <<>> THEN FALSE
    ELSE IF s = <<>> THEN TRUE
    ELSE IF s[1] = t[1] THEN SqlTextLess(Tail(s), Tail(t))
    ELSE CharRank(s[1]) < CharRank(t[1])

\* s <= t
SqlTextLeq(s, t) == ~SqlTextLess(t, s)

\* FROM LeaveRequests lr JOIN Employees e ... JOIN LeaveTypes lt ...
\* WHERE lr.start_date <= ? AND lr.end_date >= ? [AND lr.employee_id = ?]
\* [AND lr.leave_type_id = ?] [AND lr.status = ?]
LeaveReportRows(start_date_str, end_date_str, employee_id, leave_type_id, status) ==
    {i \in 1..Len(LeaveRequests) :
        /\ LeaveRequests[i].employee_id \in Employees
        /\ LeaveRequests[i].leave_type_id \in 1..Len(LeaveTypes)
        /\ SqlTextLeq(LeaveRequests[i].start_date, end_date_str)
        /\ SqlTextLeq(start_date_str, LeaveRequests[i].end_date)
        /\ (employee_id # None => LeaveRequests[i].employee_id = Val(employee_id))
        /\ (leave_type_id # None => LeaveRequests[i].leave_type_id = Val(leave_type_id))
        /\ (status # None => LeaveRequests[i].status = Val(status))}

\* ORDER BY lr.start_date, e.last_name, e.first_name; rows that tie come in
\* the order of the table
LeaveRowBefore(i, j) ==
    \/ SqlTextLess(LeaveRequests[i].start_date, LeaveRequests[j].start_date)
    \/ /\ LeaveRequests[i].start_date = LeaveRequests[j].start_date
       /\ \/ NameRank(LeaveRequests[i].employee_id) < NameRank(LeaveRequests[j].employee_id)
          \/ /\ LeaveRequests[i].employee_id = LeaveRequests[j].employee_id
             /\ i < j

RECURSIVE LeaveRowsOrdered(_)
LeaveRowsOrdered(rows) ==
    IF rows = {} THEN <<>>
    ELSE LET i == CHOOSE r \in rows : \A o \in rows \ {r} : LeaveRowBefore(r, o)
         IN  <<i>> \o LeaveRowsOrdered(rows \ {i})

\* the result lists the rows by their place in LeaveRequests
get_leave_report(start_date_obj, end_date_obj, employee_id, leave_type_id, status) ==
    LET start_date_str == FormatDateObj(start_date_obj)
        end_date_str == FormatDateObj(end_date_obj)
    IN  /\ last' = [op |-> "get_leave_report",
                    start_date_obj |-> start_date_obj,
                    end_date_obj |-> end_date_obj,
                    employee_id |-> employee_id,
                    leave_type_id |-> leave_type_id,
                    status |-> status,
                    result |-> LeaveRowsOrdered(
                                  LeaveReportRows(start_date_str, end_date_str,
                                                  employee_id, leave_type_id, status))]
        /\ UNCHANGED <<attVars, leaveVars, reqVars, callVars>>

(* Inputs of the absentee report: days of July 2024.  attendance_date holds
   the day strftime wrote, so two of them are equal texts exactly when they
   are equal days. *)
AbsenceDays == {6, 20}

\* SELECT DISTINCT al.employee_id FROM AttendanceLog al
\* WHERE al.attendance_date = :report_date
PresentOn(report_date_obj) ==
    {AttendanceLog[i].employee_id :
        i \in {r \in LogIds : AttendanceLog[r].attendance_date = FormatDate(report_date_obj)}}

\* SELECT DISTINCT lr.employee_id FROM LeaveRequests lr WHERE lr.status = 'Approved'
\* AND lr.start_date <= :report_date AND lr.end_date >= :report_date
OnApprovedLeave(report_date_str) ==
    {LeaveRequests[i].employee_id :
        i \in {r \in 1..Len(LeaveRequests) :
                  /\ LeaveRequests[r].status = "Approved"
                  /\ SqlTextLeq(LeaveRequests[r].start_date, report_date_str)
                  /\ SqlTextLeq(report_date_str, LeaveRequests[r].end_date)}}

\* ORDER BY e.last_name, e.first_name
RECURSIVE EmployeesOrdered(_)
EmployeesOrdered(es) ==
    IF es = {} THEN <<>>
    ELSE LET e == CHOOSE x \in es : \A o \in es : NameRank(x) <= NameRank(o)
         IN  <<e>> \o EmployeesOrdered(es \ {e})

\* the result lists the employees by their id
get_absentee_report(report_date_obj) ==
    LET report_date_str == FormatDateObj(report_date_obj)
    IN  /\ last' = [op |-> "get_absentee_report",
                    report_date_obj |-> report_date_obj,
                    result |-> EmployeesOrdered(
                                  (Employees \ PresentOn(report_date_obj))
                                      \ OnApprovedLeave(report_date_str))]
        /\ UNCHANGED <<attVars, leaveVars, reqVars, callVars>>

\* FROM AttendanceLog al JOIN Employees e ON al.employee_id = e.id
\* WHERE al.attendance_date = ?
DailyRows(report_date_str) ==
    {i \in LogIds : /\ AttendanceLog[i].employee_id \in Employees
                    /\ AttendanceLog[i].attendance_date = report_date_str}

\* ORDER BY e.last_name, e.first_name, al.clock_in_time; rows that tie come in
\* the order of the table
DailyRowBefore(i, j) ==
    \/ NameRank(AttendanceLog[i].employee_id) < NameRank(AttendanceLog[j].employee_id)
    \/ /\ AttendanceLog[i].employee_id = AttendanceLog[j].employee_id
       /\ \/ TextLess(AttendanceLog[i].clock_in_time, AttendanceLog[j].clock_in_time)
          \/ /\ AttendanceLog[i].clock_in_time = AttendanceLog[j].clock_in_time
             /\ i < j

\* report_data: each row listed by its place in AttendanceLog, with its duration
RECURSIVE DailyReportData(_)
DailyReportData(rows) ==
    IF rows = {} THEN <<>>
    ELSE LET i == CHOOSE r \in rows : \A o \in rows \ {r} : DailyRowBefore(r, o)
         IN  <<[id |-> i,
                duration |-> _calculate_duration(Some(AttendanceLog[i].clock_in_time),
                                                 AttendanceLog[i].clock_out_time)]>>
                 \o DailyReportData(rows \ {i})

\* (mutation) a report that marks the rows it has listed
get_daily_attendance_report_marksRows(report_date_obj) ==
    LET rows == DailyRows(FormatDate(report_date_obj))
    IN  /\ AttendanceLog' = [i \in LogIds |->
                                IF i \in rows
                                THEN [AttendanceLog[i] EXCEPT !.source = "reported"]
                                ELSE AttendanceLog[i]]
        /\ last' = [op |-> "get_daily_attendance_report",
                    report_date_obj |-> report_date_obj,
                    result |-> DailyReportData(rows)]
        /\ UNCHANGED <<clockIns, clockOuts, leaveVars, reqVars, callVars>>

get_daily_attendance_report(report_date_obj) ==
    LET report_date_str == FormatDate(report_date_obj)
    IN  /\ last' = [op |-> "get_daily_attendance_report",
                    report_date_obj |-> report_date_obj,
                    result |-> DailyReportData(DailyRows(report_date_str))]
        /\ UNCHANGED <<attVars, leaveVars, reqVars, callVars>>

-----------------------------------------------------------------------------
Init ==
    /\ AttendanceLog = <<>>
    /\ LeaveTypes = <<>>
    /\ LeaveBalances = <<>>
    /\ last = [op |-> "none", employee_id |-> 0, at |-> None, result |-> None]
    /\ clockIns = [e \in Employees |-> 0]
    /\ clockOuts = [e \in Employees |-> 0]
    /\ LeaveRequests = <<>>
    /\ calls = [p \in Callers |-> [pc |-> "idle"]]

ClockIn == \E e \in Employees, dt \in DateTimes, n \in InNotes, s \in Sources :
               clock_in(e, dt, n, s)
GetOpenSession == \E e \in Employees : get_open_attendance(e)
ClockOut == \E e \in Employees, dt \in DateTimes, n \in OutNotes : clock_out(e, dt, n)

NextAttendance == ClockIn \/ GetOpenSession \/ ClockOut

SpecAttendance == Init /\ [][NextAttendance]_vars

(* two callers of clock_out, their database steps interleaved *)
StartSession == \E s \in Seconds :
                    clock_in(1, [day |-> 1, sec |-> s, usec |-> 0], None, "manual")
Lookup == \E p \in Callers, s \in Seconds, n \in {None, Some("out")} :
              clock_out_lookup(p, 1, [day |-> 1, sec |-> s, usec |-> 0], n)
Update == \E p \in Callers : clock_out_update(p)

NextClockOutInterleaved == StartSession \/ Lookup \/ Update

SpecClockOutInterleaved == Init /\ [][NextClockOutInterleaved]_vars

AddLeaveType == \E n \in TypeNames, d \in Defaults : add_leave_type(n, d)
GetBalance == \E e \in LedgerEmployees, lt \in TypeIds, y \in Years :
                  get_leave_balance(e, lt, y)
ApplyDelta == \E e \in LedgerEmployees, lt \in TypeIds, y \in Years,
                 a \in Amounts, init \in BOOLEAN :
                  update_leave_balance(e, lt, y, a, init)

NextLedger == AddLeaveType \/ GetBalance \/ ApplyDelta

SpecLedger == Init /\ [][NextLedger]_vars

(* two callers of update_leave_balance on one key, their statements interleaved *)
SetUpType == add_leave_type("Annual", Some(1))
ReadBalance == \E lt \in {1} : get_leave_balance(1, lt, 2024)
Select == \E p \in Callers, a \in {-1, 2}, init \in BOOLEAN :
              update_select(p, 1, 1, 2024, a, init)
ReadDefault == \E p \in Callers : update_read_default(p)
WriteUpdate == \E p \in Callers : update_write_update(p)
WriteInsert == \E p \in Callers : update_write_insert(p)
Except == \E p \in Callers : update_except(p)

NextLedgerInterleaved ==
    SetUpType \/ ReadBalance \/ Select \/ ReadDefault \/ WriteUpdate \/ WriteInsert
        \/ Except

SpecLedgerInterleaved == Init /\ [][NextLedgerInterleaved]_vars

(* the same, the store failing a write now and then *)
StorageError == \E p \in Callers : update_write_fails(p)

NextLedgerFaults == NextLedgerInterleaved \/ StorageError

SpecLedgerFaults == Init /\ [][NextLedgerFaults]_vars

(* the leave request workflow, next to a ledger that holds a type and a balance *)
Apply == \E e \in RequestEmployees, lt \in RequestTypes, s \in StartDateTexts,
            t \in EndDateTexts, r \in Reasons, now \in Nows :
             apply_for_leave(e, lt, s, t, r, now)
Approve == \E id \in RequestIds, a \in Approvers : approve_leave_request(id, a)
Reject == \E id \in RequestIds, a \in Approvers : reject_leave_request(id, a)
SetBalance == \E a \in {2} : update_leave_balance(1, 1, 2024, a, TRUE)

NextLeave == SetUpType \/ SetBalance \/ Apply \/ Approve \/ Reject

SpecLeave == Init /\ [][NextLeave]_vars

(* _calculate_duration on every pair of the input texts *)
InitDuration ==
    /\ AttendanceLog = <<>>
    /\ LeaveTypes = <<>>
    /\ LeaveBalances = <<>>
    /\ last \in {[op |-> "input", clock_in_str |-> a, clock_out_str |-> b] :
                    a \in DurationInputs, b \in DurationInputs}
    /\ clockIns = [e \in Employees |-> 0]
    /\ clockOuts = [e \in Employees |-> 0]
    /\ LeaveRequests = <<>>
    /\ calls = [p \in Callers |-> [pc |-> "idle"]]

NextDuration == calculate_duration_call

SpecDuration == InitDuration /\ [][NextDuration]_vars

(* attendance over several days, and the summary of an employee *)
ShiftStart == \E e \in Employees, dt \in ShiftStarts : clock_in(e, dt, None, "manual")
ShiftEnd == \E e \in Employees, dt \in ShiftEnds : clock_out(e, dt, None)
Summary == \E e \in Employees, a \in ReportDates, b \in ReportDates :
               get_employee_attendance_summary(e, a, b)

NextSummary == ShiftStart \/ ShiftEnd \/ Summary

SpecSummary == Init /\ [][NextSummary]_vars

(* leave requests of two employees, and the leave report *)
ApplySpan == \E e \in Employees, span \in LeaveSpans, r \in Reasons, now \in Nows :
                 apply_for_leave(e, 1, span[1], span[2], r, now)
ApproveRequest == \E id \in RequestIds : approve_leave_request(id, 1)
LeaveReport == \E w \in Windows, f \in ReportFilters :
                   get_leave_report(w[1], w[2], f.employee_id, f.leave_type_id, f.status)

NextLeaveReport == SetUpType \/ ApplySpan \/ ApproveRequest \/ LeaveReport

SpecLeaveReport == Init /\ [][NextLeaveReport]_vars

(* attendance on one day, the leave requests of one employee, and the
   absentee report *)
Arrive == \E e \in Employees :
              clock_in(e, [day |-> 6, sec |-> 0, usec |-> 0], None, "manual")
AskLeave == \E span \in LeaveSpans, r \in Reasons, now \in Nows :
                apply_for_leave(1, 1, span[1], span[2], r, now)
RejectRequest == \E id \in RequestIds : reject_leave_request(id, 1)
AbsenteeReport == \E d \in AbsenceDays : get_absentee_report(WindowDay(d))

NextAbsentee == Arrive \/ AskLeave \/ ApproveRequest \/ RejectRequest \/ AbsenteeReport

SpecAbsentee == Init /\ [][NextAbsentee]_vars

(* the four reports over attendance, leave requests and a ledger row *)
Depart == \E e \in Employees : clock_out(e, [day |-> 6, sec |-> 3600, usec |-> 0], None)
AskPaddedLeave == \E r \in Reasons, now \in Nows :
                      apply_for_leave(1, 1, <<"2", "0", "2", "4", "-", "0", "7", "-", "0", "5">>,
                                      <<"2", "0", "2", "4", "-", "0", "7", "-", "0", "9">>, r, now)
DailyReport == \E d \in AbsenceDays : get_daily_attendance_report(WindowDay(d))
SummaryReport == \E e \in Employees :
                     get_employee_attendance_summary(e, WindowDay(6), WindowDay(20))
FilteredLeaveReport == \E f \in ReportFilters :
                           get_leave_report(WindowDay(1), WindowDay(6), f.employee_id,
                                            f.leave_type_id, f.status)

NextReports ==
    Arrive \/ Depart \/ AskPaddedLeave \/ ApproveRequest \/ SetBalance
        \/ DailyReport \/ SummaryReport \/ FilteredLeaveReport \/ AbsenteeReport

SpecReports == Init /\ [][NextReports]_vars

-----------------------------------------------------------------------------
(* Vocabulary of the properties, stated on the tables themselves *)

IsOpen(i) == AttendanceLog[i].clock_out_time = None
RecordsOf(e) == {i \in 1..Len(AttendanceLog) : AttendanceLog[i].employee_id = e}
OpenRecordsIn(log, e) ==
    {i \in 1..Len(log) : log[i].employee_id = e /\ log[i].clock_out_time = None}
OpenRecordsOf(e) == OpenRecordsIn(AttendanceLog, e)
ClosedRecordsOf(e) == RecordsOf(e) \ OpenRecordsOf(e)

\* stored text s is later than stored text t
Later(s, t) == s[1] > t[1] \/ (s[1] = t[1] /\ s[2] > t[2])

\* i is an open record of e with the greatest clock_in_time
IsLatestOpen(i, e) ==
    /\ i \in OpenRecordsOf(e)
    /\ \A j \in OpenRecordsOf(e) :
          ~Later(AttendanceLog[j].clock_in_time, AttendanceLog[i].clock_in_time)

\* datetime dt is strictly earlier than the stored text t
EarlierThanText(dt, t) == dt.day < t[1] \/ (dt.day = t[1] /\ dt.sec < t[2])
\* datetime dt is exactly the instant the stored text t names
EqualsText(dt, t) == dt.day = t[1] /\ dt.sec = t[2] /\ dt.usec = 0

-----------------------------------------------------------------------------
(* C1: after any sequence of ClockIn and ClockOut, every employee has at most
   one attendance record whose clock_out_time is absent. *)
C1_AtMostOneOpenRecord ==
    \A e \in Employees : Cardinality(OpenRecordsOf(e)) <= 1

(* C1 as amended: an employee has exactly one open record per clock-in that no
   successful clock-out has matched yet (clock-in never looks for an open
   record), so the number of open records is the number of clock-ins minus the
   number of successful clock-outs. *)
C1_OneOpenRecordPerUnmatchedClockIn ==
    \A e \in Employees :
        Cardinality(OpenRecordsOf(e)) = clockIns[e] - clockOuts[e]

C1_Witness ==
    \E e \in Employees :
        clockIns[e] = 2 /\ clockOuts[e] = 1 /\ Cardinality(OpenRecordsOf(e)) = 1

(* C2: ClockOut for an employee that has no open record returns False and
   leaves every attendance record unchanged; so does a second ClockOut after
   the one that closed the only open session. *)
C2_ClockOutWithoutOpenSessionFails ==
    [][(last'.op = "clock_out" /\ OpenRecordsOf(last'.employee_id) = {})
         => (last'.result = Some(FALSE) /\ AttendanceLog' = AttendanceLog)]_vars

C2_Witness ==
    /\ last.op = "clock_out"
    /\ last.result = Some(FALSE)
    /\ OpenRecordsOf(last.employee_id) = {}
    /\ clockOuts[last.employee_id] >= 1

(* C3: ClockOut at a time strictly earlier than the clock_in_time of the
   employee's latest open session fails and leaves that session open and its
   notes (every record) unchanged; ClockOut at exactly that clock_in_time is
   accepted and closes the session. *)
C3_ClockOutBeforeClockInRejected ==
    [][\A i \in 1..Len(AttendanceLog) :
          (last'.op = "clock_out" /\ IsLatestOpen(i, last'.employee_id))
            => /\ EarlierThanText(Val(last'.at), AttendanceLog[i].clock_in_time)
                    => (last'.result = Some(FALSE) /\ AttendanceLog' = AttendanceLog)
               /\ EqualsText(Val(last'.at), AttendanceLog[i].clock_in_time)
                    => /\ last'.result = Some(TRUE)
                       /\ Cardinality(OpenRecordsIn(AttendanceLog', last'.employee_id)) =
                            Cardinality(OpenRecordsOf(last'.employee_id)) - 1]_vars

C3_Witness ==
    /\ last.op = "clock_out"
    /\ last.result = Some(FALSE)
    /\ \E i \in 1..Len(AttendanceLog) :
          /\ IsLatestOpen(i, last.employee_id)
          /\ EarlierThanText(Val(last.at), AttendanceLog[i].clock_in_time)
          /\ AttendanceLog[i].notes # None

(* C4: every attendance record has clock_out_time absent or not earlier than
   its clock_in_time. *)
C4_ClockOutNotBeforeClockIn ==
    \A i \in 1..Len(AttendanceLog) :
        \/ AttendanceLog[i].clock_out_time = None
        \/ ~Later(AttendanceLog[i].clock_in_time, Val(AttendanceLog[i].clock_out_time))

C4_Witness ==
    /\ last.op = "clock_out"
    /\ last.result = Some(TRUE)
    /\ Val(last.at).usec # 0
    /\ \E i \in ClosedRecordsOf(last.employee_id) :
          AttendanceLog[i].clock_out_time = Some(AttendanceLog[i].clock_in_time)

(* C5: a closed record is final: no later ClockIn or ClockOut changes its
   clock_out_time or its notes, and it never becomes open again. *)
C5_ClosedIsTerminal ==
    [][\A i \in 1..Len(AttendanceLog) :
          ~IsOpen(i)
            => /\ i <= Len(AttendanceLog')
               /\ AttendanceLog'[i].clock_out_time = AttendanceLog[i].clock_out_time
               /\ AttendanceLog'[i].notes = AttendanceLog[i].notes]_vars

C5_Witness ==
    /\ last.op = "clock_out"
    /\ last.result = Some(TRUE)
    /\ Cardinality(ClosedRecordsOf(last.employee_id)) = 2

(* C6: ClockIn always creates exactly one new open record for the employee,
   whether or not the employee already has open or closed records, and leaves
   every existing record unchanged. *)
C6_ClockInAlwaysAddsOneOpenRecord ==
    [][last'.op = "clock_in"
         => /\ Len(AttendanceLog') = Len(AttendanceLog) + 1
            /\ last'.result = Some(Len(AttendanceLog'))
            /\ AttendanceLog'[Len(AttendanceLog')].employee_id = last'.employee_id
            /\ AttendanceLog'[Len(AttendanceLog')].clock_out_time = None
            /\ \A i \in 1..Len(AttendanceLog) : AttendanceLog'[i] = AttendanceLog[i]]_vars

C6_Witness ==
    /\ last.op = "clock_in"
    /\ last.result = Some(2)
    /\ Cardinality(OpenRecordsOf(last.employee_id)) = 2

(* C7: for an employee with no open session, GetOpenSession right after
   ClockIn returns the record ClockIn created (same id, clock_out_time
   absent); right after a successful ClockOut that leaves the employee with
   no open record it returns NotFound. *)
C7_GetOpenSessionFollowsClockInAndClockOut ==
    [][(last'.op = "get_open_attendance" /\ last'.employee_id = last.employee_id)
         => /\ (last.op = "clock_in" /\ OpenRecordsOf(last.employee_id) = {Val(last.result)})
                 => /\ last'.result # None
                    /\ Val(last'.result).id = Val(last.result)
                    /\ Val(last'.result).row.clock_out_time = None
                    /\ Val(last'.result).row = AttendanceLog[Val(last.result)]
            /\ (last.op = "clock_out" /\ last.result = Some(TRUE)
                  /\ OpenRecordsOf(last.employee_id) = {})
                 => last'.result = None]_vars

C7_Witness ==
    /\ last.op = "get_open_attendance"
    /\ last.result # None
    /\ OpenRecordsOf(last.employee_id) = {Val(last.result).id}
    /\ ClosedRecordsOf(last.employee_id) # {}

-----------------------------------------------------------------------------
(* Vocabulary of the ledger properties *)

\* the rows of table tbl for the key (e, lt, y)
KeyRows(tbl, e, lt, y) ==
    {i \in 1..Len(tbl) :
        tbl[i].employee_id = e /\ tbl[i].leave_type_id = lt /\ tbl[i].year = y}

\* the stored balance of the key: the balances of its rows
Stored(tbl, e, lt, y) == {tbl[i].balance : i \in KeyRows(tbl, e, lt, y)}

\* every row of tbl that is not of the key is the same row of tbl2
OtherRowsKept(tbl, tbl2, e, lt, y) ==
    \A i \in 1..Len(tbl) :
        i \notin KeyRows(tbl, e, lt, y) => (i <= Len(tbl2) /\ tbl2[i] = tbl[i])

Keys == LedgerEmployees \X TypeIds \X Years

(* C8: ApplyDelta with isInitial=true stores exactly amount for the key,
   whether or not a row existed and whatever it held, and returns it; applied
   twice with the same amount it leaves the same table and returns the same
   value as applied once. *)
C8_InitialSetsBalanceAndIsIdempotent ==
    /\ [][(last'.op = "update_leave_balance" /\ last'.is_initial_balance)
            => /\ Stored(LeaveBalances', last'.employee_id, last'.leave_type_id,
                         last'.year) = {last'.change_amount}
               /\ Cardinality(KeyRows(LeaveBalances', last'.employee_id,
                                      last'.leave_type_id, last'.year)) = 1
               /\ last'.result = last'.change_amount
               /\ OtherRowsKept(LeaveBalances, LeaveBalances', last'.employee_id,
                                last'.leave_type_id, last'.year)]_vars
    /\ [](\A k \in Keys, a \in Amounts :
            LET once == UpdatedBalances(LeaveBalances, LeaveTypes,
                                        k[1], k[2], k[3], a, TRUE)
                twice == UpdatedBalances(once, LeaveTypes, k[1], k[2], k[3], a, TRUE)
            IN  /\ twice = once
                /\ NewBalance(once, LeaveTypes, k[1], k[2], k[3], a, TRUE) =
                   NewBalance(LeaveBalances, LeaveTypes, k[1], k[2], k[3], a, TRUE))

C8_Witness ==
    /\ last.op = "update_leave_balance"
    /\ last.is_initial_balance
    /\ last.existing_balance_row # None
    /\ last.existing_balance_row # Some(last.change_amount)
    /\ Stored(LeaveBalances, last.employee_id, last.leave_type_id, last.year) =
         {last.change_amount}

(* C9: from any ledger state, ApplyDelta(x) then ApplyDelta(y) with
   isInitial=false on one key leaves the same stored balance as the single
   ApplyDelta(x + y). *)
C9_DeltasCompose ==
    \A k \in Keys, x \in Amounts, z \in Amounts :
        LET first == UpdatedBalances(LeaveBalances, LeaveTypes,
                                     k[1], k[2], k[3], x, FALSE)
            both == UpdatedBalances(first, LeaveTypes, k[1], k[2], k[3], z, FALSE)
            single == UpdatedBalances(LeaveBalances, LeaveTypes,
                                      k[1], k[2], k[3], FAdd(x, z), FALSE)
        IN  (/\ Stored(first, k[1], k[2], k[3]) \subseteq Floats
             /\ Stored(both, k[1], k[2], k[3]) \subseteq Floats
             /\ Stored(single, k[1], k[2], k[3]) \subseteq Floats)
              => Stored(both, k[1], k[2], k[3]) = Stored(single, k[1], k[2], k[3])

(* C10: GetBalance returns the balance of the key's row when there is one,
   else the leave type's default_balance when the type has one, else 0. *)
C10_GetBalanceResolutionOrder ==
    last.op = "get_leave_balance"
      => LET rows == KeyRows(LeaveBalances, last.employee_id, last.leave_type_id,
                             last.year)
             lt == last.leave_type_id
         IN  /\ rows # {} => \E i \in rows : last.result = LeaveBalances[i].balance
             /\ (rows = {} /\ lt <= Len(LeaveTypes)
                   /\ LeaveTypes[lt].default_balance # None)
                  => last.result = Val(LeaveTypes[lt].default_balance)
             /\ (rows = {} /\ (lt > Len(LeaveTypes)
                               \/ LeaveTypes[lt].default_balance = None))
                  => last.result = 0

C10_Witness ==
    /\ last.op = "get_leave_balance"
    /\ KeyRows(LeaveBalances, last.employee_id, last.leave_type_id, last.year) # {}
    /\ last.leave_type_id <= Len(LeaveTypes)
    /\ LeaveTypes[last.leave_type_id].default_balance # None
    /\ last.result # Val(LeaveTypes[last.leave_type_id].default_balance)
    /\ last.result # 0

(* C11: GetBalance never changes the ledger: the LeaveBalances rows (and the
   leave types) are the same before and after every GetBalance call, also when
   it answers with a leave type's default for a key that has no row. *)
C11_GetBalanceIsReadOnly ==
    [][last'.op = "get_leave_balance"
         => (LeaveBalances' = LeaveBalances /\ LeaveTypes' = LeaveTypes)]_vars

C11_Witness ==
    /\ last.op = "get_leave_balance"
    /\ KeyRows(LeaveBalances, last.employee_id, last.leave_type_id, last.year) = {}
    /\ last.leave_type_id <= Len(LeaveTypes)
    /\ LeaveTypes[last.leave_type_id].default_balance # None
    /\ last.result = Val(LeaveTypes[last.leave_type_id].default_balance)
    /\ last.result # 0

\* the leave type's default_balance, 0 when the type or its default is absent
DefaultOrZero(types, lt) ==
    IF lt <= Len(types) /\ types[lt].default_balance # None
    THEN Val(types[lt].default_balance)
    ELSE 0

(* C12: ApplyDelta with isInitial=false on a key without a row persists one
   row holding the leave type's default_balance (0 when absent) plus amount;
   on a key that has a row it stores the row's balance plus amount, the
   default not being added again.  Plus is the float sum. *)
C12_DefaultFoldedInOnce ==
    [][(last'.op = "update_leave_balance" /\ ~last'.is_initial_balance)
         => LET e == last'.employee_id
                lt == last'.leave_type_id
                y == last'.year
            IN  /\ Cardinality(KeyRows(LeaveBalances', e, lt, y)) = 1
                /\ KeyRows(LeaveBalances, e, lt, y) = {}
                     => Stored(LeaveBalances', e, lt, y) =
                          {FAdd(DefaultOrZero(LeaveTypes, lt), last'.change_amount)}
                /\ \A i \in KeyRows(LeaveBalances, e, lt, y) :
                      Stored(LeaveBalances', e, lt, y) =
                          {FAdd(LeaveBalances[i].balance, last'.change_amount)}]_vars

C12_Witness ==
    /\ last.op = "update_leave_balance"
    /\ ~last.is_initial_balance
    /\ last.existing_balance_row # None
    /\ DefaultOrZero(LeaveTypes, last.leave_type_id) # 0
    /\ Stored(LeaveBalances, last.employee_id, last.leave_type_id, last.year) =
         {FAdd(Val(last.existing_balance_row), last.change_amount)}
    /\ \E a \in Amounts :
          Val(last.existing_balance_row) =
              FAdd(DefaultOrZero(LeaveTypes, last.leave_type_id), a)

(* C13: after any sequence of ApplyDelta and GetBalance calls, also when the
   statements of two ApplyDelta calls on the same key interleave, the ledger
   holds at most one row per (employee_id, leave_type_id, year), and no row is
   ever deleted: every row stays at its id with its key. *)
C13_OneRowPerKeyAndNoDelete ==
    /\ [](\A i, j \in 1..Len(LeaveBalances) :
             (/\ LeaveBalances[i].employee_id = LeaveBalances[j].employee_id
              /\ LeaveBalances[i].leave_type_id = LeaveBalances[j].leave_type_id
              /\ LeaveBalances[i].year = LeaveBalances[j].year) => i = j)
    /\ [][/\ Len(LeaveBalances') >= Len(LeaveBalances)
          /\ \A i \in 1..Len(LeaveBalances) :
                /\ LeaveBalances'[i].employee_id = LeaveBalances[i].employee_id
                /\ LeaveBalances'[i].leave_type_id = LeaveBalances[i].leave_type_id
                /\ LeaveBalances'[i].year = LeaveBalances[i].year]_vars

\* a call whose INSERT lost against the other caller's has returned, and a
\* get_leave_balance ran while a call was under way
C13_Witness ==
    /\ last.op = "update_leave_balance"
    /\ last.path = "except"
    /\ Cardinality(KeyRows(LeaveBalances, last.employee_id, last.leave_type_id,
                           last.year)) = 1
    /\ \E p \in Callers : calls[p].pc # "idle"

-----------------------------------------------------------------------------
(* Vocabulary of the leave request properties *)

\* l is a call of Approve (status "Approved") or Reject (status "Rejected")
IsStatusCall(l, status) ==
    l.op = "_update_leave_request_status" /\ l.new_status = status

RequestExists(tbl, id) == id \in 1..Len(tbl)

\* the days of 2024, and the texts that name one: year-month-day in numerals,
\* month and day with or without a leading zero
MonthLengths2024 == <<31, 29, 31, 30, 31, 30, 31, 31, 30, 31, 30, 31>>
CalendarDates2024 ==
    {c \in [month : 1..12, day : 1..31] : c.day <= MonthLengths2024[c.month]}
TwoDigits(n) == <<DigitChars[(n \div 10) + 1], DigitChars[(n % 10) + 1]>>
Written(n) == IF n < 10 THEN {<<DigitChars[n + 1]>>, TwoDigits(n)} ELSE {TwoDigits(n)}
WrittenForms(c) ==
    {<<"2", "0", "2", "4", "-">> \o m \o <<"-">> \o d :
        m \in Written(c.month), d \in Written(c.day)}
IsCalendarDateText(t) == \E c \in CalendarDates2024 : t \in WrittenForms(c)
DateOfText(t) == CHOOSE c \in CalendarDates2024 : t \in WrittenForms(c)
NotAfter(c1, c2) == c1.month < c2.month \/ (c1.month = c2.month /\ c1.day <= c2.day)

\* what GetBalance answers for the key on the tables
Reported(tbl, types, e, lt, y) ==
    IF KeyRows(tbl, e, lt, y) # {}
    THEN Stored(tbl, e, lt, y)
    ELSE {DefaultOrZero(types, lt)}

(* C14: every leave request starts Pending, and its status changes at most
   once: a request that is Approved or Rejected keeps its status in every
   later step.  The code does not keep this (Approve and Reject overwrite a
   terminal status). *)
C14_StatusChangesAtMostOnce ==
    [][/\ \A i \in 1..Len(LeaveRequests) :
             LeaveRequests[i].status # "Pending"
                => LeaveRequests'[i].status = LeaveRequests[i].status
       /\ \A i \in (Len(LeaveRequests) + 1)..Len(LeaveRequests') :
             LeaveRequests'[i].status = "Pending"]_vars

(* C15: Approve on an existing request succeeds, and a Reject of the same
   request right after a successful Approve succeeds too and leaves the
   request Rejected with the approver_id of the Reject call. *)
C15_RejectAfterApproveWins ==
    /\ [][(IsStatusCall(last', "Approved")
             /\ RequestExists(LeaveRequests, last'.leave_request_id))
            => last'.result]_vars
    /\ [][(/\ IsStatusCall(last, "Approved") /\ last.result
           /\ IsStatusCall(last', "Rejected")
           /\ last'.leave_request_id = last.leave_request_id)
            => (/\ last'.result
                /\ LeaveRequests'[last'.leave_request_id].status = "Rejected"
                /\ LeaveRequests'[last'.leave_request_id].approver_id =
                      Some(last'.approver_id))]_vars

C15_Witness ==
    /\ IsStatusCall(last, "Rejected")
    /\ last.result
    /\ last.request_row # None
    /\ Val(last.request_row).status = "Approved"
    /\ LeaveRequests[last.leave_request_id].status = "Rejected"
    /\ LeaveRequests[last.leave_request_id].approver_id = Some(last.approver_id)

(* C16: in every reachable state a leave request has no approver_id exactly
   when its status is Pending (approvers are user ids, never None). *)
C16_ApproverAbsentIffPending ==
    \A i \in 1..Len(LeaveRequests) :
        (LeaveRequests[i].approver_id = None) <=> (LeaveRequests[i].status = "Pending")

C16_Witness ==
    /\ \E i \in 1..Len(LeaveRequests) :
          LeaveRequests[i].status = "Pending" /\ LeaveRequests[i].approver_id = None
    /\ \E i \in 1..Len(LeaveRequests) :
          LeaveRequests[i].status = "Approved" /\ LeaveRequests[i].approver_id # None
    /\ IsStatusCall(last, "Approved")

(* C17: Approve or Reject with a request id that does not exist returns False
   and leaves every leave request, every ledger row and every leave type as
   it was. *)
C17_MissingRequestIsNotFound ==
    [][(/\ last'.op = "_update_leave_request_status"
        /\ ~RequestExists(LeaveRequests, last'.leave_request_id))
         => (/\ last'.result = FALSE
             /\ LeaveRequests' = LeaveRequests
             /\ LeaveBalances' = LeaveBalances
             /\ LeaveTypes' = LeaveTypes)]_vars

C17_Witness ==
    /\ last.op = "_update_leave_request_status"
    /\ ~RequestExists(LeaveRequests, last.leave_request_id)
    /\ last.result = FALSE
    /\ LeaveRequests # <<>>
    /\ LeaveBalances # <<>>

(* C18: Apply returns None and creates no request when start_date or end_date
   does not name a calendar date; when both do and the leave type exists, it
   appends exactly one request, Pending and without approver_id, carrying the
   arguments, and returns its id. *)
C18_ApplyValidatesDates ==
    [][last'.op = "apply_for_leave"
         => IF ~IsCalendarDateText(last'.start_date_str)
               \/ ~IsCalendarDateText(last'.end_date_str)
            THEN last'.result = None /\ LeaveRequests' = LeaveRequests
            ELSE RequestExists(LeaveTypes, last'.leave_type_id)
                   => (/\ Len(LeaveRequests') = Len(LeaveRequests) + 1
                       /\ SubSeq(LeaveRequests', 1, Len(LeaveRequests)) = LeaveRequests
                       /\ last'.result = Some(Len(LeaveRequests'))
                       /\ LET r == LeaveRequests'[Len(LeaveRequests')]
                          IN  /\ r.status = "Pending"
                              /\ r.approver_id = None
                              /\ r.employee_id = last'.employee_id
                              /\ r.leave_type_id = last'.leave_type_id
                              /\ r.start_date = last'.start_date_str
                              /\ r.end_date = last'.end_date_str)]_vars

C18_Witness ==
    /\ last.op = "apply_for_leave"
    /\ last.result # None
    /\ RequestExists(LeaveTypes, last.leave_type_id)
    /\ Val(last.result) = Len(LeaveRequests)
    /\ Len(LeaveRequests) > 1
    /\ LeaveRequests[Val(last.result)].status = "Pending"
    /\ LeaveRequests[Val(last.result)].approver_id = None
    /\ LeaveRequests[Val(last.result)].end_date # LeaveRequests[Val(last.result)].start_date

(* C19: every stored leave request has start_date <= end_date.  The code
   does not keep this (apply_for_leave never compares the two dates). *)
C19_StartNotAfterEnd ==
    \A i \in 1..Len(LeaveRequests) :
        NotAfter(DateOfText(LeaveRequests[i].start_date),
                 DateOfText(LeaveRequests[i].end_date))

(* C20: Apply, Approve and Reject never change the ledger: the LeaveBalances
   rows, and what GetBalance answers for every key, are the same before and
   after such a call; a step that changes LeaveBalances is an ApplyDelta. *)
C20_RequestsLeaveLedgerAlone ==
    /\ [][last'.op \in {"apply_for_leave", "_update_leave_request_status"}
            => (/\ LeaveBalances' = LeaveBalances
                /\ \A k \in Keys :
                      Reported(LeaveBalances', LeaveTypes', k[1], k[2], k[3]) =
                          Reported(LeaveBalances, LeaveTypes, k[1], k[2], k[3]))]_vars
    /\ [][LeaveBalances' # LeaveBalances => last'.op = "update_leave_balance"]_vars

C20_Witness ==
    /\ IsStatusCall(last, "Approved")
    /\ last.result
    /\ LeaveTypes # <<>>
    /\ \E i \in 1..Len(LeaveBalances) :
          /\ LeaveBalances[i].employee_id =
                LeaveRequests[last.leave_request_id].employee_id
          /\ LeaveBalances[i].leave_type_id =
                LeaveRequests[last.leave_request_id].leave_type_id
          /\ LeaveBalances[i].balance > 0

-----------------------------------------------------------------------------
(* C29: a successful ClockOut changes exactly one record, an open record of
   the employee that no other open record of the employee is later than; every
   other record (older open records of the employee included, and every record
   of the other employees) is unchanged, and so is the number of records. *)
C29_ClockOutChangesOnlyLatestOpen ==
    [][(last'.op = "clock_out" /\ last'.result = Some(TRUE))
         => /\ Len(AttendanceLog') = Len(AttendanceLog)
            /\ \E i \in 1..Len(AttendanceLog) :
                  /\ IsLatestOpen(i, last'.employee_id)
                  /\ AttendanceLog'[i] # AttendanceLog[i]
                  /\ \A j \in 1..Len(AttendanceLog) :
                        j # i => AttendanceLog'[j] = AttendanceLog[j]]_vars

\* the call closed the later of two records of the employee; the older is open
C29_Witness ==
    /\ last.op = "clock_out"
    /\ last.result = Some(TRUE)
    /\ \E i, j \in RecordsOf(last.employee_id) :
          /\ AttendanceLog[i].clock_out_time = Some(FormatDateTime(Val(last.at)))
          /\ AttendanceLog[j].clock_out_time = None
          /\ Later(AttendanceLog[i].clock_in_time, AttendanceLog[j].clock_in_time)

\* open records A, B of the employee of the call l, A started at or before the
\* call's time and B after it
StraddledBy(log, l, A, B) ==
    /\ A \in OpenRecordsIn(log, l.employee_id)
    /\ B \in OpenRecordsIn(log, l.employee_id)
    /\ ~EarlierThanText(Val(l.at), log[A].clock_in_time)
    /\ EarlierThanText(Val(l.at), log[B].clock_in_time)

(* C30: when the employee has an open session A with clock_in_time <= t and a
   later-started open session B with clock_in_time > t, ClockOut(employee, t)
   fails and changes no record: A stays open as well as B. *)
C30_ClockOutCheckedAgainstLatestOpen ==
    [][(/\ last'.op = "clock_out"
        /\ \E A, B \in 1..Len(AttendanceLog) : StraddledBy(AttendanceLog, last', A, B))
         => (last'.result = Some(FALSE) /\ AttendanceLog' = AttendanceLog)]_vars

C30_Witness ==
    /\ last.op = "clock_out"
    /\ last.result = Some(FALSE)
    /\ \E A, B \in 1..Len(AttendanceLog) : StraddledBy(AttendanceLog, last, A, B)

-----------------------------------------------------------------------------
(* C27: two concurrent ApplyDelta(isInitial=false) calls on one key lose no
   delta: whenever such a call writes the key's row, the balance it stores is
   the balance stored just before its write plus its amount, so that the two
   calls together leave the starting balance plus x plus y.  The code does not
   keep this (each call adds to the balance it read before the other wrote). *)
C27_NoLostUpdate ==
    [][\A p \in Callers :
          (/\ calls[p].pc = "update"
           /\ calls'[p].pc = "idle"
           /\ ~calls[p].args.is_initial_balance)
            => LET a == calls[p].args
               IN  Stored(LeaveBalances', a.employee_id, a.leave_type_id, a.year) =
                      {FAdd(b, a.change_amount) :
                          b \in Stored(LeaveBalances, a.employee_id, a.leave_type_id,
                                       a.year)}]_vars

(* C28: when the storage write of ApplyDelta fails (the store raises an
   error, or the INSERT hits the UNIQUE constraint), the ledger is unchanged
   and what the caller receives is not a balance value.  The code does not keep the second part (the except
   branch returns get_leave_balance(...), a balance like any other). *)
C28_WriteFailureIsSurfaced ==
    [][\A p \in Callers :
          (calls[p].pc = "except" /\ calls'[p].pc = "idle")
            => (LeaveBalances' = LeaveBalances /\ last'.result \notin Floats)]_vars

-----------------------------------------------------------------------------
(* C26: two ClockOut calls of one employee that run concurrently close a
   session once only: every call that succeeds closes a session of its own,
   so an employee has as many closed records as successful ClockOut calls
   (with one open session and two calls, one success).  The code does not keep
   this (both calls find the open record, both update it and return True). *)
C26_ConcurrentClockOutClosesOnce ==
    \A e \in Employees : clockOuts[e] = Cardinality(ClosedRecordsOf(e))

-----------------------------------------------------------------------------
\* a count below 1000 written in decimal with at least two digits
AtLeastTwoDigits(n) ==
    IF n < 100 THEN TwoDigits(n)
    ELSE <<DigitChars[(n \div 100) + 1], DigitChars[((n \div 10) % 10) + 1],
           DigitChars[(n % 10) + 1]>>

\* clock_out - clock_in in whole seconds, for two stored texts
SecondsBetween(in_text, out_text) ==
    (out_text[1] - in_text[1]) * 24 * 60 * 60 + (out_text[2] - in_text[2])

(* C23: the duration of a record is "Open" when clock_out is absent, the
   sentinel "Invalid (Out < In)" when clock_out < clock_in, and otherwise
   clock_out - clock_in in whole seconds written HH:MM:SS: minutes and seconds
   in 0..59 with two digits, hours with at least two digits and not reduced
   modulo 24. *)
C23_DurationFormat ==
    (last.op = "_calculate_duration" /\ last.clock_in_str # None)
      => IF last.clock_out_str = None
         THEN last.result = <<"O", "p", "e", "n">>
         ELSE LET d == SecondsBetween(Val(last.clock_in_str), Val(last.clock_out_str))
              IN  IF d < 0
                  THEN SubSeq(last.result, 1, 7) = <<"I", "n", "v", "a", "l", "i", "d">>
                  ELSE \E m \in 0..59, sec \in 0..59 :
                          /\ (d - 60 * m - sec) % 3600 = 0
                          /\ last.result =
                                AtLeastTwoDigits((d - 60 * m - sec) \div 3600)
                                    \o <<":">> \o TwoDigits(m) \o <<":">> \o TwoDigits(sec)

\* 09:00 to 17:30 on one day gives "08:30:00", and five days more "128:30:00"
C23_Witness ==
    /\ last.op = "_calculate_duration"
    /\ last.clock_in_str = Some(<<1, 32400>>)
    /\ \/ /\ last.clock_out_str = Some(<<1, 63000>>)
          /\ last.result = <<"0", "8", ":", "3", "0", ":", "0", "0">>
       \/ /\ last.clock_out_str = Some(<<6, 63000>>)
          /\ last.result = <<"1", "2", "8", ":", "3", "0", ":", "0", "0">>

-----------------------------------------------------------------------------
\* the records of e whose attendance_date lies in the window
InWindow(e, from, to) ==
    {i \in RecordsOf(e) : from <= AttendanceLog[i].attendance_date
                          /\ AttendanceLog[i].attendance_date <= to}

\* closed with clock_out > clock_in
IsWorked(i) ==
    /\ ~IsOpen(i)
    /\ SecondsBetween(AttendanceLog[i].clock_in_time,
                      Val(AttendanceLog[i].clock_out_time)) > 0

\* the sum of clock_out - clock_in over the records of S among the first n
RECURSIVE WorkedUpTo(_, _)
WorkedUpTo(S, n) ==
    IF n = 0 THEN 0
    ELSE WorkedUpTo(S, n - 1)
         + (IF n \in S /\ IsWorked(n)
            THEN SecondsBetween(AttendanceLog[n].clock_in_time,
                                Val(AttendanceLog[n].clock_out_time))
            ELSE 0)

(* C24: the summary of employee e over [start, end] reports as
   total_days_present the number of distinct attendance_date values among e's
   records with start <= attendance_date <= end, open ones included, and as
   total duration the sum of clock_out - clock_in over those of these records
   that are closed with clock_out > clock_in. *)
C24_SummaryCountsDaysAndSeconds ==
    last.op = "get_employee_attendance_summary"
      => LET S == InWindow(last.employee_id, last.start_date, last.end_date)
         IN  /\ last.result.total_days_present =
                    Cardinality({AttendanceLog[i].attendance_date : i \in S})
             /\ last.result.total_duration_seconds = WorkedUpTo(S, Len(AttendanceLog))

\* two records of the employee on one day of the window, one closed and one
\* open: one day present, and the closed record's time
C24_Witness ==
    /\ last.op = "get_employee_attendance_summary"
    /\ \E i, j \in InWindow(last.employee_id, last.start_date, last.end_date) :
          /\ i # j
          /\ AttendanceLog[i].attendance_date = AttendanceLog[j].attendance_date
          /\ IsOpen(i)
          /\ IsWorked(j)
    /\ last.result.total_days_present = 1
    /\ last.result.total_duration_seconds > 0

-----------------------------------------------------------------------------
\* the elements of a sequence
Listed(seq) == {seq[n] : n \in 1..Len(seq)}

\* an absent filter matches everything
Matches(filter, v) == filter = None \/ filter = Some(v)

\* the request's span and the window [from, to] share a day
Overlaps(r, from, to) ==
    /\ NotAfter(DateOfText(r.start_date), to)
    /\ NotAfter(from, DateOfText(r.end_date))

(* C21: the leave report over the window [start, end] lists a leave request
   (of an existing employee and leave type) if and only if the request matches
   every given filter and request.start_date <= end and request.end_date >=
   start.  The code does not keep this: it compares the stored date texts
   character by character. *)
C21_LeaveReportIsOverlap ==
    last.op = "get_leave_report"
      => \A i \in 1..Len(LeaveRequests) :
            RequestExists(LeaveTypes, LeaveRequests[i].leave_type_id)
              => (i \in Listed(last.result)
                    <=> /\ Matches(last.employee_id, LeaveRequests[i].employee_id)
                        /\ Matches(last.leave_type_id, LeaveRequests[i].leave_type_id)
                        /\ Matches(last.status, LeaveRequests[i].status)
                        /\ Overlaps(LeaveRequests[i], last.start_date_obj,
                                    last.end_date_obj))

\* e has an attendance record on the day D of July 2024
AttendedOn(e, D) == \E i \in RecordsOf(e) : AttendanceLog[i].attendance_date = D.day

\* e has an Approved leave request with start_date <= D <= end_date
OnLeaveOn(e, D) ==
    \E i \in 1..Len(LeaveRequests) :
        /\ LeaveRequests[i].employee_id = e
        /\ LeaveRequests[i].status = "Approved"
        /\ Overlaps(LeaveRequests[i], D, D)

(* C22: the absentee report of day D lists an employee if and only if the
   employee has no attendance record with attendance_date = D and no Approved
   leave request with start_date <= D <= end_date.  The code does not keep
   this: it compares the stored date texts character by character. *)
C22_AbsentIffNoRecordAndNoApprovedLeave ==
    last.op = "get_absentee_report"
      => \A e \in Employees :
            e \in Listed(last.result)
              <=> (~AttendedOn(e, last.report_date_obj)
                     /\ ~OnLeaveOn(e, last.report_date_obj))

-----------------------------------------------------------------------------
ReportOps == {"get_daily_attendance_report", "get_employee_attendance_summary",
              "get_leave_report", "get_absentee_report"}

\* a call without what it returned
CallOf(l) == [f \in (DOMAIN l) \ {"result"} |-> l[f]]

(* C25: a reporting operation changes no attendance record, no leave request,
   no ledger row and no leave type, and the same report called again right
   after itself returns the same result. *)
C25_ReportsAreReadOnly ==
    /\ [][last'.op \in ReportOps
            => (/\ AttendanceLog' = AttendanceLog
                /\ LeaveRequests' = LeaveRequests
                /\ LeaveBalances' = LeaveBalances
                /\ LeaveTypes' = LeaveTypes)]_vars
    /\ [][(last.op \in ReportOps /\ CallOf(last') = CallOf(last))
            => last'.result = last.result]_vars

\* a daily report that lists an open and a closed record, with a leave request
\* and a ledger row in the store
C25_Witness ==
    /\ last.op = "get_daily_attendance_report"
    /\ Len(last.result) = 2
    /\ \E n \in 1..2 : last.result[n].duration = <<"O", "p", "e", "n">>
    /\ \E n \in 1..2 : last.result[n].duration = <<"0", "1", ":", "0", "0", ":", "0", "0">>
    /\ LeaveRequests # <<>>
    /\ LeaveBalances # <<>>

=============================================================================
